---- MODULE Spec2Model ----
(***************************************************************************)
(* Model of the Jira exporter scripts.                                     *)
(*                                                                         *)
(*   Spec       export_jira_space_settings.py run as a script: the         *)
(*              top-level dispatch, get_jira_context, test_workflow_only   *)
(*              and every fetch they make, one action per request.         *)
(*   SpecIndex  _build_transition_index applied to bounded transition      *)
(*              lists.                                                     *)
(*   SpecPage   the pagination loop of main.py.                            *)
(*   SpecExtract  _extract_workflow_transitions applied to bounded         *)
(*              workflow-search payloads.                                  *)
(*                                                                         *)
(* JSON objects are records (a key is present iff it is in the DOMAIN),    *)
(* JSON arrays are sequences, and a top-level payload carries a tag that   *)
(* says whether it is an object or an array.                               *)
(***************************************************************************)
EXTENDS Integers, Sequences, FiniteSets, TLC

VARIABLES
    \* ---- export_jira_space_settings.py ----
    env,                    \* which environment variables are set (truthy)
    pc,                     \* position of the script
    exit,                   \* how the top-level run ended
    raised,                 \* the exception that reached the top level
    netCalls,               \* number of HTTP requests issued so far
    wfRequests,             \* HTTP requests issued per workflow name
    fetches,                \* calls of _fetch_workflow_transitions_by_name per name
    lookup,                 \* the fetch the attempts below belong to
    attempts,               \* one record per request of that fetch
    last_error,             \* last_error of the running fallback loop
    lookupEnd,              \* "pending", "returned" or "raised"
    custom_fields,
    statuses_payload,
    project_id,
    scheme_id,
    default_workflow,
    issue_type_to_workflow,
    workflow_cache,
    statuses,
    idx,                    \* position of the assembly loop in statuses_payload
    workflow_arg,           \* workflow_name argument of the running transition fetch
    printed,                \* what the script printed on stdout as its result
    \* ---- _build_transition_index ----
    transitions,            \* the argument
    by_from,
    global_transitions,
    indexed,                \* whether the function has returned
    \* ---- main.py ----
    all_issues,
    next_page_token,
    sent,                   \* nextPageToken carried by each request sent
    received,               \* the response to each request
    looping,                \* whether the while loop is still running
    \* ---- _extract_workflow_transitions ----
    workflow_payload,       \* the payload given as argument
    extracted,              \* the list returned
    returned                \* whether the function has returned

exportVars ==
    << env, pc, exit, raised, netCalls, wfRequests, fetches, lookup, attempts,
       last_error, lookupEnd, custom_fields, statuses_payload, project_id,
       scheme_id, default_workflow, issue_type_to_workflow, workflow_cache,
       statuses, idx, workflow_arg, printed >>

indexVars == << transitions, by_from, global_transitions, indexed >>

pageVars == << all_issues, next_page_token, sent, received, looping >>

extractVars == << workflow_payload, extracted, returned >>

vars == << exportVars, indexVars, pageVars, extractVars >>

-----------------------------------------------------------------------------
(* Bounds of the model                                                     *)

MaxIssueTypes == 2     \* length of the issue-type listing
MaxTransitions == 2    \* length of the list given to the indexer
MaxFrom == 2           \* length of a transition's from_statuses
MaxPages == 3          \* pages the search endpoint serves before it stops
MaxIssues == 1         \* issues on one page
MaxRaw == 1            \* entries of a transitions array given to the extractor

-----------------------------------------------------------------------------
(* Python values                                                           *)

None == "None"

Truthy(s) == s # None /\ s # ""

Range(s) == { s[i] : i \in DOMAIN s }

Has(obj, key) == key \in DOMAIN obj

\* dict.get(key): None when the key is absent
Get(obj, key) == IF key \in DOMAIN obj THEN obj[key] ELSE None

Dict(obj) == [type |-> "dict", obj |-> obj]

List(items) == [type |-> "list", items |-> items]

\* Exceptions carry their class and the candidate whose request raised them.
NoError == [type |-> None, cand |-> 0]

Error(type, cand) == [type |-> type, cand |-> cand]

IsInstance(type, cls) ==
    \/ type = cls
    \/ type = "JSONDecodeError" /\ cls = "ValueError"

-----------------------------------------------------------------------------
(* HTTP                                                                    *)

\* What a request can meet: no connection, an HTTP error status, a body that
\* is not JSON, or a JSON body.
Failures == {"conn", "http", "decode"}

Failed(res) == [res |-> res, payload |-> Dict(<<>>)]

Ok(payload) == [res |-> "ok", payload |-> payload]

\* _get_json: the exception it raises (None when it returns the body) and
\* whether it wrote a debug block to stderr before raising.
_get_json(res) ==
    CASE res = "conn"   -> [exc |-> "ConnectionError", logged |-> FALSE]
      [] res = "http"   -> [exc |-> "HTTPError", logged |-> TRUE]
      [] res = "decode" -> [exc |-> "JSONDecodeError", logged |-> TRUE]
      [] OTHER          -> [exc |-> None, logged |-> FALSE]

-----------------------------------------------------------------------------
(* Payload extractors                                                      *)

\* Python's `a or b` on string-or-None values
OrElse(a, b) == IF Truthy(a) THEN a ELSE b

FirstSchemeId(first) ==
    LET inner == OrElse(Get(first, "workflowSchemeId"), Get(first, "id"))
    IN  IF Truthy(inner) THEN inner ELSE None

_extract_workflow_scheme_id(payload) ==
    IF payload.type = "dict"
    THEN LET obj == payload.obj
         IN  IF Truthy(Get(obj, "workflowSchemeId"))
             THEN obj.workflowSchemeId
             ELSE IF Has(obj, "workflowScheme")
                     /\ Truthy(Get(obj.workflowScheme, "id"))
             THEN obj.workflowScheme.id
             ELSE IF Has(obj, "values") /\ obj.values # <<>>
                     /\ FirstSchemeId(obj.values[1]) # None
             THEN FirstSchemeId(obj.values[1])
             ELSE IF Has(obj, "projects") /\ Has(obj.projects, "values")
                     /\ obj.projects.values # <<>>
                     /\ FirstSchemeId(obj.projects.values[1]) # None
             THEN FirstSchemeId(obj.projects.values[1])
             ELSE None
    ELSE IF payload.items # <<>>
         THEN FirstSchemeId(payload.items[1])
         ELSE None

\* issueTypeMappings given as an object: the entries with non-empty key and value
MappingFromDict(raw) ==
    LET keys == { k \in DOMAIN raw : k # "" /\ Truthy(raw[k]) }
    IN  [k \in keys |-> raw[k]]

\* issueTypeMappings given as a list of records: a later record overrides
ItemIssueType(item) == OrElse(Get(item, "issueTypeId"), Get(item, "issueType"))

ItemWorkflow(item) == OrElse(Get(item, "workflow"), Get(item, "workflowName"))

MappingFromList(items) ==
    LET good == { i \in DOMAIN items :
                    Truthy(ItemIssueType(items[i])) /\ Truthy(ItemWorkflow(items[i])) }
        keys == { ItemIssueType(items[i]) : i \in good }
        LastOf(k) == CHOOSE i \in good :
                        /\ ItemIssueType(items[i]) = k
                        /\ \A j \in good : ItemIssueType(items[j]) = k => j <= i
    IN  [k \in keys |-> ItemWorkflow(items[LastOf(k)])]

_extract_scheme_workflow_mapping(scheme_detail) ==
    IF scheme_detail.type # "dict"
    THEN [default |-> None, mapping |-> <<>>]
    ELSE LET obj == scheme_detail.obj
             default_name == Get(obj, "defaultWorkflow")
         IN  IF ~Has(obj, "issueTypeMappings")
             THEN [default |-> default_name, mapping |-> <<>>]
             ELSE IF obj.issueTypeMappings.type = "dict"
             THEN [default |-> default_name,
                   mapping |-> MappingFromDict(obj.issueTypeMappings.obj)]
             ELSE [default |-> default_name,
                   mapping |-> MappingFromList(obj.issueTypeMappings.items)]

\* One entry of a workflow's transitions array: <<>> when the entry is
\* skipped, else the one WorkflowTransition made of it.
TransitionTo(tr) ==
    IF Has(tr, "to") /\ Truthy(Get(tr.to, "name"))
    THEN tr.to.name
    ELSE IF Truthy(Get(tr, "end")) THEN tr.end ELSE None

NamesOf(objs) ==
    LET RECURSIVE Collect(_)
        Collect(i) ==
            IF i > Len(objs) THEN <<>>
            ELSE (IF Truthy(Get(objs[i], "name")) THEN <<objs[i].name>> ELSE <<>>)
                 \o Collect(i + 1)
    IN  Collect(1)

TransitionFrom(tr) ==
    LET found ==
            IF ~Has(tr, "from") THEN <<>>
            ELSE IF tr.from.type = "dict"
            THEN (IF Truthy(Get(tr.from.obj, "name")) THEN <<tr.from.obj.name>> ELSE <<>>)
            ELSE IF tr.from.type = "list"
            THEN NamesOf(tr.from.items)
            ELSE (IF tr.from.str # "" THEN <<tr.from.str>> ELSE <<>>)
    IN  IF found = <<>> THEN <<"*">> ELSE found

ExtractTransition(tr) ==
    IF ~Truthy(Get(tr, "name")) \/ TransitionTo(tr) = None
    THEN <<>>
    ELSE << [name |-> tr.name,
             to_status |-> TransitionTo(tr),
             from_statuses |-> TransitionFrom(tr)]
            @@ (IF Truthy(Get(tr, "id")) THEN [id |-> tr.id] ELSE <<>>) >>

\* the payload itself preferred when it has a transitions list of its own
WorkflowObjectPayloadFirst(payload) ==
    LET obj == payload.obj
    IN  IF Has(obj, "transitions")
        THEN obj
        ELSE IF Has(obj, "values") /\ obj.values # <<>>
        THEN obj.values[1]
        ELSE IF Has(obj, "workflows") /\ obj.workflows # <<>>
        THEN obj.workflows[1]
        ELSE obj

\* The object the transitions are read from
WorkflowObject(payload) ==
    LET obj == payload.obj
    IN  IF Has(obj, "values") /\ obj.values # <<>>
        THEN obj.values[1]
        ELSE IF Has(obj, "workflows") /\ obj.workflows # <<>>
        THEN obj.workflows[1]
        ELSE obj

_extract_workflow_transitions(payload) ==
    IF payload.type # "dict" THEN <<>>
    ELSE LET workflow == WorkflowObject(payload)
             RECURSIVE Collect(_)
             Collect(i) ==
                 IF i > Len(workflow.transitions) THEN <<>>
                 ELSE ExtractTransition(workflow.transitions[i]) \o Collect(i + 1)
         IN  IF ~Has(workflow, "transitions") THEN <<>> ELSE Collect(1)

-----------------------------------------------------------------------------
(* What the Jira endpoints may answer                                      *)

EnvNames ==
    {"JIRA_DOMAIN", "JIRA_EMAIL", "JIRA_API_TOKEN", "JIRA_PROJECT_KEY",
     "JIRA_WORKFLOW_NAME"}

Workflows == {"WA", "WD"}

\* the value of JIRA_WORKFLOW_NAME when it is set
TestWorkflow == "WA"

FieldPayloads ==
    LET story == [custom |-> TRUE, name |-> "Story Points", id |-> "customfield_10016"]
        summary == [custom |-> FALSE, name |-> "Summary", id |-> "summary"]
        broken == [name |-> "Broken", id |-> "customfield_1"]
    IN  { <<>>, <<story, summary>>, <<story, broken>> }

FieldResponses == { Failed(r) : r \in Failures } \cup { Ok(List(p)) : p \in FieldPayloads }

IssueTypeEntries ==
    { [id |-> "1", name |-> "Bug",
       statuses |-> << [name |-> "To Do"], [name |-> "Done"] >>],
      [id |-> "2", name |-> "Task",
       statuses |-> << [name |-> "To Do"], [id |-> "3"] >>],
      [name |-> "Epic"],
      [id |-> "1", name |-> ""] }

Listings ==
    UNION { [1..n -> IssueTypeEntries] : n \in 0..MaxIssueTypes }

StatusesResponses ==
    { Failed(r) : r \in Failures }
        \cup { Ok(List(l)) : l \in Listings }
        \cup { Ok(Dict([errorMessages |-> <<>>])) }

ProjectResponses ==
    { Failed(r) : r \in Failures }
        \cup { Ok(Dict([id |-> "10000", key |-> "PRJ"])),
               Ok(Dict([key |-> "PRJ"])),
               Ok(List(<<>>)) }

SchemeIdPayloads ==
    { Dict([workflowSchemeId |-> "S1"]),
      Dict([workflowScheme |-> [id |-> "S1"]]),
      Dict([values |-> << [workflowSchemeId |-> "S1"] >>]),
      Dict([values |-> << [name |-> "scheme"] >>,
            projects |-> [values |-> << [id |-> "S1"] >>]]),
      List(<< [id |-> "S1"] >>),
      Dict([workflowSchemeId |-> ""]),
      Dict([values |-> <<>>]),
      List(<<>>) }

SchemeIdResponses == { Failed(r) : r \in Failures } \cup { Ok(p) : p \in SchemeIdPayloads }

SchemeDetailPayloads ==
    { Dict([defaultWorkflow |-> "WD", issueTypeMappings |-> Dict("1" :> "WA")]),
      Dict([issueTypeMappings |->
                List(<< [issueTypeId |-> "1", workflow |-> "WA"],
                        [issueType |-> "2", workflowName |-> "WA"],
                        [issueTypeId |-> "3"] >>)]),
      Dict([defaultWorkflow |-> "WD"]),
      Dict([defaultWorkflow |-> "WD", issueTypeMappings |-> Dict("1" :> "WD")]),
      Dict([defaultWorkflow |-> "", issueTypeMappings |-> Dict("1" :> "" @@ "2" :> "WD")]),
      Dict([name |-> "scheme"]),
      List(<<>>) }

SchemeDetailResponses ==
    { Failed(r) : r \in Failures } \cup { Ok(p) : p \in SchemeDetailPayloads }

WorkflowPayloads ==
    LET start == [id |-> "11", name |-> "Start", to |-> [name |-> "In Progress"],
                  from |-> List(<< [name |-> "To Do"], [id |-> "9"] >>)]
        close == [name |-> "Close", end |-> "Done"]
        reopen == [id |-> "21", name |-> "Reopen", to |-> [name |-> "To Do"],
                   from |-> Dict([name |-> "Done"])]
        nameless == [id |-> "31", to |-> [name |-> "Done"]]
        endless == [id |-> "41", name |-> "Lost", from |-> [type |-> "str", str |-> "To Do"]]
    IN  { Dict([values |-> << [transitions |-> <<start, close>>] >>]),
          Dict([transitions |-> <<reopen, nameless>>]),
          Dict([workflows |-> << [transitions |-> <<start>>] >>]),
          Dict([transitions |-> <<reopen>>,
                values |-> << [transitions |-> <<start, close>>] >>]),
          Dict([values |-> << [transitions |-> <<>>] >>]),
          Dict([values |-> <<>>, total |-> "0"]),
          Dict([transitions |-> <<nameless, endless>>]),
          List(<<>>) }

WorkflowResponses == { Failed(r) : r \in Failures } \cup { Ok(p) : p \in WorkflowPayloads }

-----------------------------------------------------------------------------
(* export_jira_space_settings.py                                           *)

StatusesCandidates == <<"api/3/project/statuses", "api/2/project/statuses">>

SchemeIdCandidates ==
    <<"api/3/workflowscheme/project", "api/2/workflowscheme/project",
      "projectconfig/1/workflowscheme">>

SchemeDetailCandidates == <<"api/3/workflowscheme", "api/2/workflowscheme">>

TransitionsCandidates == <<"api/3/workflow/search", "api/2/workflow/search">>

\* _validate_env_vars without its last check
ValidateEnvVarsNoProjectKey(e) ==
    IF ~e["JIRA_DOMAIN"] \/ ~e["JIRA_EMAIL"] \/ ~e["JIRA_API_TOKEN"]
    THEN "ValueError"
    ELSE None

\* _validate_env_vars: the exception raised, None when every check passes
_validate_env_vars(e) ==
    IF ~e["JIRA_DOMAIN"] \/ ~e["JIRA_EMAIL"] \/ ~e["JIRA_API_TOKEN"]
          \/ ~e["JIRA_PROJECT_KEY"]
    THEN "ValueError"
    ELSE None

\* the two checks at the head of test_workflow_only
ValidateWorkflowOnly(e) ==
    IF ~e["JIRA_DOMAIN"] \/ ~e["JIRA_EMAIL"] \/ ~e["JIRA_API_TOKEN"]
    THEN "ValueError"
    ELSE IF ~e["JIRA_WORKFLOW_NAME"] THEN "ValueError" ELSE None

\* the except clauses of the __main__ block
MainExcept(type) ==
    IF IsInstance(type, "ValueError") THEN "config_error_printed"
    ELSE IF IsInstance(type, "HTTPError") THEN "api_error_printed"
    ELSE "uncaught"

\* last_error assigned only while it is still None
KeepFirstError(previous, e) == IF previous = NoError THEN e ELSE previous

\* `except Exception as e: last_error = e`
KeepError(previous, e) == e

\* any decoded answer returned, as in `return transitions` without the `if`
TransitionsAlwaysUsable(trs) == TRUE

\* `if transitions: return transitions`
TransitionsUsable(trs) == trs # <<>>

\* `if scheme_id: return scheme_id`
SchemeIdUsable(sid) == Truthy(sid)

\* the cache never consulted
CacheNeverHit(workflow_name, cache) == FALSE

\* `workflow_name not in workflow_cache`, negated
CacheHit(workflow_name, cache) == workflow_name \in DOMAIN cache

\* the scheme's default preferred over the issue type's own entry
ResolveWorkflowNameDefaultFirst(issue_type_id, default, mapping) ==
    IF Truthy(default) THEN default
    ELSE IF Truthy(issue_type_id) /\ issue_type_id \in DOMAIN mapping
    THEN mapping[issue_type_id]
    ELSE None

\* the workflow of one issue type
ResolveWorkflowName(issue_type_id, default, mapping) ==
    IF Truthy(issue_type_id) /\ issue_type_id \in DOMAIN mapping
    THEN mapping[issue_type_id]
    ELSE IF Truthy(default) THEN default ELSE None

\* the names of the status objects that have one
AvailableStatuses(issue_type) ==
    LET objs == IF Has(issue_type, "statuses") THEN issue_type.statuses ELSE <<>>
        RECURSIVE Collect(_)
        Collect(i) ==
            IF i > Len(objs) THEN <<>>
            ELSE (IF Has(objs[i], "name") THEN <<objs[i].name>> ELSE <<>>)
                 \o Collect(i + 1)
    IN  Collect(1)

IssueTypeStatus(issue_type, workflow_name, trs) ==
    [issue_type |-> issue_type.name,
     available_statuses |-> AvailableStatuses(issue_type),
     workflow_name |-> workflow_name,
     transitions |-> trs]

\* the attempts and last_error of the fallback loop `name`: empty when the
\* loop is only now entered
Running(name) == lookup = name /\ lookupEnd = "pending"

Attempts(name) == IF Running(name) THEN attempts ELSE <<>>

LastError(name) == IF Running(name) THEN last_error ELSE NoError

\* a fallback function is called: `last_error = None`, no candidate tried
EnterLookup(name) ==
    /\ lookup' = name
    /\ attempts' = <<>>
    /\ last_error' = NoError
    /\ lookupEnd' = "pending"

Attempt(c, r, exc, logged, val) ==
    [cand |-> c, res |-> r.res, exc |-> exc, logged |-> logged, val |-> val]

\* an exception leaves the function and reaches the __main__ block
Raise(type, cause) ==
    /\ pc' = "done"
    /\ raised' = [type |-> type, cause |-> cause]
    /\ exit' = MainExcept(type)

NoRaise == UNCHANGED << raised, exit >>

results == << custom_fields, statuses_payload, project_id, scheme_id,
              default_workflow, issue_type_to_workflow, workflow_cache,
              statuses, idx, printed >>

\* `if JIRA_WORKFLOW_NAME:` of the __main__ block
Main ==
    /\ pc = "main"
    /\ UNCHANGED << indexVars, pageVars, extractVars >>
    /\ pc' = IF env["JIRA_WORKFLOW_NAME"] THEN "test_workflow_only" ELSE "get_jira_context"
    /\ UNCHANGED << env, exit, raised, netCalls, wfRequests, fetches, lookup,
                    attempts, last_error, lookupEnd, results, workflow_arg >>

\* get_jira_context up to its first fetch
get_jira_context ==
    /\ pc = "get_jira_context"
    /\ UNCHANGED << indexVars, pageVars, extractVars >>
    /\ IF _validate_env_vars(env) # None
       THEN Raise(_validate_env_vars(env), NoError)
       ELSE pc' = "_fetch_custom_fields" /\ NoRaise
    /\ UNCHANGED << env, netCalls, wfRequests, fetches, lookup, attempts,
                    last_error, lookupEnd, results, workflow_arg >>

\* _fetch_custom_fields: the exception it raises and the mapping it returns
CustomFields(r) ==
    LET fields == r.payload.items
        custom == { i \in DOMAIN fields : fields[i].custom }
    IN  CASE r.res = "conn"   -> [exc |-> "ConnectionError", val |-> <<>>]
          [] r.res = "http"   -> [exc |-> "HTTPError", val |-> <<>>]
          [] r.res = "decode" -> [exc |-> "JSONDecodeError", val |-> <<>>]
          [] OTHER ->
                IF \E i \in DOMAIN fields : ~Has(fields[i], "custom")
                THEN [exc |-> "KeyError", val |-> <<>>]
                ELSE [exc |-> None,
                      val |-> [n \in { fields[i].name : i \in custom } |->
                                 fields[CHOOSE i \in custom :
                                     /\ fields[i].name = n
                                     /\ \A j \in custom :
                                           fields[j].name = n => j <= i].id]]

_fetch_custom_fields ==
    /\ pc = "_fetch_custom_fields"
    /\ UNCHANGED << indexVars, pageVars, extractVars >>
    /\ \E r \in FieldResponses :
          LET out == CustomFields(r)
          IN  /\ netCalls' = netCalls + 1
              /\ lookup' = "custom_fields"
              /\ attempts' = << Attempt(1, r, out.exc, FALSE, <<>>) >>
              /\ last_error' = NoError
              /\ IF out.exc # None
                 THEN /\ Raise(out.exc, NoError)
                      /\ lookupEnd' = "raised"
                      /\ UNCHANGED custom_fields
                 ELSE /\ custom_fields' = out.val
                      /\ lookupEnd' = "returned"
                      /\ pc' = "_fetch_project_statuses"
                      /\ NoRaise
    /\ UNCHANGED << env, wfRequests, fetches, statuses_payload, project_id,
                    scheme_id, default_workflow, issue_type_to_workflow,
                    workflow_cache, statuses, idx, printed, workflow_arg >>

\* one pass of the candidate loop at the head of _fetch_project_statuses,
\* with the raise that follows the loop when it was the last pass
FetchStatusesCandidate ==
    /\ pc = "_fetch_project_statuses"
    /\ UNCHANGED << indexVars, pageVars, extractVars >>
    /\ \E r \in StatusesResponses :
          LET c == Len(Attempts("statuses")) + 1
              got == _get_json(r.res)
              isList == got.exc = None /\ r.payload.type = "list"
              err == IF got.exc # None
                     THEN KeepError(LastError("statuses"), Error(got.exc, c))
                     ELSE LastError("statuses")
          IN  /\ netCalls' = netCalls + 1
              /\ lookup' = "statuses"
              /\ attempts' = Append(Attempts("statuses"),
                                    Attempt(c, r, got.exc, got.logged, isList))
              /\ last_error' = err
              /\ IF isList
                 THEN /\ statuses_payload' = r.payload.items
                      /\ lookupEnd' = "returned"
                      /\ pc' = "_fetch_project_id"
                      /\ NoRaise
                 ELSE IF c < Len(StatusesCandidates)
                 THEN /\ lookupEnd' = "pending"
                      /\ UNCHANGED << pc, statuses_payload >>
                      /\ NoRaise
                 ELSE /\ lookupEnd' = "raised"
                      /\ Raise("HTTPError", err)
                      /\ UNCHANGED statuses_payload
    /\ UNCHANGED << env, wfRequests, fetches, custom_fields, project_id,
                    scheme_id, default_workflow, issue_type_to_workflow,
                    workflow_cache, statuses, idx, printed, workflow_arg >>

\* _fetch_project_id
_fetch_project_id ==
    /\ pc = "_fetch_project_id"
    /\ UNCHANGED << indexVars, pageVars, extractVars >>
    /\ \E r \in ProjectResponses :
          LET got == _get_json(r.res)
              wellFormed == r.payload.type = "dict" /\ Has(r.payload.obj, "id")
              exc == IF got.exc # None THEN got.exc
                     ELSE IF ~wellFormed THEN "ValueError" ELSE None
          IN  /\ netCalls' = netCalls + 1
              /\ lookup' = "project_id"
              /\ attempts' = << Attempt(1, r, exc, got.logged, wellFormed) >>
              /\ last_error' = NoError
              /\ IF exc # None
                 THEN /\ Raise(exc, NoError)
                      /\ lookupEnd' = "raised"
                      /\ UNCHANGED project_id
                 ELSE /\ project_id' = r.payload.obj.id
                      /\ lookupEnd' = "returned"
                      /\ pc' = "_fetch_workflow_scheme_id"
                      /\ NoRaise
    /\ UNCHANGED << env, wfRequests, fetches, custom_fields, statuses_payload,
                    scheme_id, default_workflow, issue_type_to_workflow,
                    workflow_cache, statuses, idx, printed, workflow_arg >>

\* one pass of the candidate loop of _fetch_workflow_scheme_id, with the
\* raise that follows the loop when it was the last pass
_fetch_workflow_scheme_id ==
    /\ pc = "_fetch_workflow_scheme_id"
    /\ UNCHANGED << indexVars, pageVars, extractVars >>
    /\ \E r \in SchemeIdResponses :
          LET c == Len(Attempts("scheme_id")) + 1
              got == _get_json(r.res)
              sid == IF got.exc = None THEN _extract_workflow_scheme_id(r.payload) ELSE None
              usable == got.exc = None /\ SchemeIdUsable(sid)
              logged == got.logged \/ (got.exc = None /\ ~usable)
              err == IF got.exc # None
                     THEN KeepError(LastError("scheme_id"), Error(got.exc, c))
                     ELSE LastError("scheme_id")
          IN  /\ netCalls' = netCalls + 1
              /\ lookup' = "scheme_id"
              /\ attempts' = Append(Attempts("scheme_id"),
                                    Attempt(c, r, got.exc, logged, sid))
              /\ last_error' = err
              /\ IF usable
                 THEN /\ scheme_id' = sid
                      /\ lookupEnd' = "returned"
                      /\ pc' = "_fetch_workflow_scheme_detail"
                      /\ NoRaise
                 ELSE IF c < Len(SchemeIdCandidates)
                 THEN /\ lookupEnd' = "pending"
                      /\ UNCHANGED << pc, scheme_id >>
                      /\ NoRaise
                 ELSE /\ lookupEnd' = "raised"
                      /\ Raise("HTTPError", err)
                      /\ UNCHANGED scheme_id
    /\ UNCHANGED << env, wfRequests, fetches, custom_fields, statuses_payload,
                    project_id, default_workflow, issue_type_to_workflow,
                    workflow_cache, statuses, idx, printed, workflow_arg >>

\* one pass of the candidate loop of _fetch_workflow_scheme_detail; when it
\* returns, _fetch_project_statuses extracts the mapping from the payload
\* and enters its issue-type loop
_fetch_workflow_scheme_detail ==
    /\ pc = "_fetch_workflow_scheme_detail"
    /\ UNCHANGED << indexVars, pageVars, extractVars >>
    /\ \E r \in SchemeDetailResponses :
          LET c == Len(Attempts("scheme_detail")) + 1
              got == _get_json(r.res)
              detail == _extract_scheme_workflow_mapping(r.payload)
              err == IF got.exc # None
                     THEN KeepError(LastError("scheme_detail"), Error(got.exc, c))
                     ELSE LastError("scheme_detail")
          IN  /\ netCalls' = netCalls + 1
              /\ lookup' = "scheme_detail"
              /\ attempts' = Append(Attempts("scheme_detail"),
                                    Attempt(c, r, got.exc, got.logged, detail))
              /\ last_error' = err
              /\ IF got.exc = None
                 THEN /\ default_workflow' = detail.default
                      /\ issue_type_to_workflow' = detail.mapping
                      /\ workflow_cache' = <<>>
                      /\ statuses' = <<>>
                      /\ idx' = 1
                      /\ lookupEnd' = "returned"
                      /\ pc' = "issue_type_loop"
                      /\ NoRaise
                 ELSE IF c < Len(SchemeDetailCandidates)
                 THEN /\ lookupEnd' = "pending"
                      /\ UNCHANGED << pc, default_workflow, issue_type_to_workflow,
                                      workflow_cache, statuses, idx >>
                      /\ NoRaise
                 ELSE /\ lookupEnd' = "raised"
                      /\ Raise("HTTPError", err)
                      /\ UNCHANGED << default_workflow, issue_type_to_workflow,
                                      workflow_cache, statuses, idx >>
    /\ UNCHANGED << env, wfRequests, fetches, custom_fields, statuses_payload,
                    project_id, scheme_id, printed, workflow_arg >>

\* one pass of the issue-type loop of _fetch_project_statuses, up to the
\* call of _fetch_workflow_transitions_by_name when the pass makes one
AssembleIssueType ==
    /\ pc = "issue_type_loop"
    /\ UNCHANGED << indexVars, pageVars, extractVars >>
    /\ idx <= Len(statuses_payload)
    /\ LET issue_type == statuses_payload[idx]
           workflow_name == ResolveWorkflowName(Get(issue_type, "id"),
                                default_workflow, issue_type_to_workflow)
       IN  IF ~Truthy(Get(issue_type, "name"))
           THEN /\ idx' = idx + 1
                /\ UNCHANGED << pc, statuses, fetches, workflow_arg, lookup,
                                attempts, last_error, lookupEnd >>
           ELSE IF Truthy(workflow_name) /\ ~CacheHit(workflow_name, workflow_cache)
           THEN /\ pc' = "_fetch_workflow_transitions_by_name"
                /\ workflow_arg' = workflow_name
                /\ fetches' = [fetches EXCEPT ![workflow_name] = @ + 1]
                /\ EnterLookup("transitions")
                /\ UNCHANGED << idx, statuses >>
           ELSE /\ statuses' = Append(statuses,
                       IssueTypeStatus(issue_type, workflow_name,
                           IF Truthy(workflow_name)
                           THEN workflow_cache[workflow_name] ELSE <<>>))
                /\ idx' = idx + 1
                /\ UNCHANGED << pc, fetches, workflow_arg, lookup, attempts,
                                last_error, lookupEnd >>
    /\ UNCHANGED << env, exit, raised, netCalls, wfRequests,
                    custom_fields, statuses_payload,
                    project_id, scheme_id, default_workflow,
                    issue_type_to_workflow, workflow_cache, printed >>

\* the loop is over: _fetch_project_statuses returns, get_jira_context
\* builds the JiraContext and the __main__ block prints it
ReturnJiraContext ==
    /\ pc = "issue_type_loop"
    /\ UNCHANGED << indexVars, pageVars, extractVars >>
    /\ idx > Len(statuses_payload)
    /\ printed' = [custom_fields |-> custom_fields, statuses |-> statuses]
    /\ exit' = "result_printed"
    /\ pc' = "done"
    /\ UNCHANGED << env, raised, netCalls, wfRequests, fetches, lookup, attempts,
                    last_error, lookupEnd, custom_fields, statuses_payload,
                    project_id, scheme_id, default_workflow,
                    issue_type_to_workflow, workflow_cache, statuses, idx,
                    workflow_arg >>

\* one pass of the candidate loop of _fetch_workflow_transitions_by_name,
\* with the raise that follows the loop when it was the last pass; when the
\* function returns, its caller goes on: the issue-type loop stores the list
\* in the cache and appends the entry, test_workflow_only prints the list
_fetch_workflow_transitions_by_name ==
    /\ pc = "_fetch_workflow_transitions_by_name"
    /\ UNCHANGED << indexVars, pageVars, extractVars >>
    /\ \E r \in WorkflowResponses :
          LET c == Len(Attempts("transitions")) + 1
              got == _get_json(r.res)
              trs == IF got.exc = None THEN _extract_workflow_transitions(r.payload) ELSE <<>>
              usable == got.exc = None /\ TransitionsUsable(trs)
              err == IF got.exc # None
                     THEN KeepError(LastError("transitions"), Error(got.exc, c))
                     ELSE LastError("transitions")
          IN  /\ netCalls' = netCalls + 1
              /\ wfRequests' = [wfRequests EXCEPT ![workflow_arg] = @ + 1]
              /\ lookup' = "transitions"
              /\ attempts' = Append(Attempts("transitions"),
                                    Attempt(c, r, got.exc, got.logged, trs))
              /\ last_error' = err
              /\ IF usable
                 THEN /\ lookupEnd' = "returned"
                      /\ IF env["JIRA_WORKFLOW_NAME"]
                         THEN /\ printed' = [workflow_name |-> workflow_arg,
                                             transitions |-> trs]
                              /\ exit' = "result_printed"
                              /\ pc' = "done"
                              /\ UNCHANGED << workflow_cache, statuses, idx, raised >>
                         ELSE /\ workflow_cache' = (workflow_arg :> trs) @@ workflow_cache
                              /\ statuses' = Append(statuses,
                                     IssueTypeStatus(statuses_payload[idx],
                                                     workflow_arg, trs))
                              /\ idx' = idx + 1
                              /\ pc' = "issue_type_loop"
                              /\ NoRaise
                              /\ UNCHANGED printed
                 ELSE IF c < Len(TransitionsCandidates)
                 THEN /\ lookupEnd' = "pending"
                      /\ NoRaise
                      /\ UNCHANGED << pc, workflow_cache, statuses, idx, printed >>
                 ELSE /\ lookupEnd' = "raised"
                      /\ Raise("HTTPError", err)
                      /\ UNCHANGED << workflow_cache, statuses, idx, printed >>
    /\ UNCHANGED << env, fetches, custom_fields, statuses_payload, project_id,
                    scheme_id, default_workflow, issue_type_to_workflow,
                    workflow_arg >>

\* test_workflow_only up to its call of _fetch_workflow_transitions_by_name
test_workflow_only ==
    /\ pc = "test_workflow_only"
    /\ UNCHANGED << indexVars, pageVars, extractVars >>
    /\ IF ValidateWorkflowOnly(env) # None
       THEN /\ Raise(ValidateWorkflowOnly(env), NoError)
            /\ UNCHANGED << workflow_arg, fetches, lookup, attempts, last_error,
                            lookupEnd >>
       ELSE /\ pc' = "_fetch_workflow_transitions_by_name"
            /\ workflow_arg' = TestWorkflow
            /\ fetches' = [fetches EXCEPT ![TestWorkflow] = @ + 1]
            /\ EnterLookup("transitions")
            /\ NoRaise
    /\ UNCHANGED << env, netCalls, wfRequests, results >>

InitExport ==
    /\ env \in [EnvNames -> BOOLEAN]
    /\ pc = "main"
    /\ exit = "running"
    /\ raised = [type |-> None, cause |-> NoError]
    /\ netCalls = 0
    /\ wfRequests = [w \in Workflows |-> 0]
    /\ fetches = [w \in Workflows |-> 0]
    /\ lookup = None
    /\ attempts = <<>>
    /\ last_error = NoError
    /\ lookupEnd = "pending"
    /\ custom_fields = <<>>
    /\ statuses_payload = <<>>
    /\ project_id = None
    /\ scheme_id = None
    /\ default_workflow = None
    /\ issue_type_to_workflow = <<>>
    /\ workflow_cache = <<>>
    /\ statuses = <<>>
    /\ idx = 1
    /\ workflow_arg = None
    /\ printed = <<>>

\* the script is not run
IdleExport ==
    /\ InitExport
    /\ \A n \in EnvNames : ~env[n]

IdleIndex ==
    /\ transitions = <<>>
    /\ by_from = <<>>
    /\ global_transitions = <<>>
    /\ indexed = FALSE

IdlePage ==
    /\ all_issues = <<>>
    /\ next_page_token = None
    /\ sent = <<>>
    /\ received = <<>>
    /\ looping = FALSE

IdleExtract ==
    /\ workflow_payload = List(<<>>)
    /\ extracted = <<>>
    /\ returned = FALSE

Init == InitExport /\ IdleIndex /\ IdlePage /\ IdleExtract

Next ==
    \/ Main
    \/ get_jira_context
    \/ _fetch_custom_fields
    \/ FetchStatusesCandidate
    \/ _fetch_project_id
    \/ _fetch_workflow_scheme_id
    \/ _fetch_workflow_scheme_detail
    \/ AssembleIssueType
    \/ ReturnJiraContext
    \/ _fetch_workflow_transitions_by_name
    \/ test_workflow_only

Spec == Init /\ [][Next]_vars

-----------------------------------------------------------------------------
(* Properties of the export script                                         *)

ContextRun == ~env["JIRA_WORKFLOW_NAME"]

\* the list the last call of _fetch_workflow_transitions_by_name returned
ReturnedTransitions ==
    IF ContextRun THEN workflow_cache[workflow_arg] ELSE printed.transitions

\* attempt i of the transition lookup raised or decoded to zero transitions
NoTransitions(i) == attempts[i].exc # None \/ attempts[i].val = <<>>

\* C1: the transition lookup tries its candidates in their listed order; it
\* returns the list of the first candidate that answered and whose list is
\* not empty, it never returns an empty list, and a candidate that raised or
\* answered with zero transitions ends the lookup only when it is the last.
C1_FirstNonEmptyTransitions ==
    lookup = "transitions" =>
        LET n == Len(attempts)
        IN  /\ n <= Len(TransitionsCandidates)
            /\ \A i \in 1..n : attempts[i].cand = i
            /\ \A i \in 1..(n - 1) : NoTransitions(i)
            /\ lookupEnd = "pending" =>
                  /\ n < Len(TransitionsCandidates)
                  /\ pc = "_fetch_workflow_transitions_by_name"
                  /\ exit = "running"
            /\ lookupEnd = "returned" =>
                  /\ ~NoTransitions(n)
                  /\ ReturnedTransitions = attempts[n].val
                  /\ ReturnedTransitions # <<>>
            /\ lookupEnd = "raised" =>
                  /\ n = Len(TransitionsCandidates)
                  /\ NoTransitions(n)

\* C1 witness: the first candidate answered with zero transitions and the
\* second candidate's list was returned
C1_Witness ==
    /\ lookup = "transitions"
    /\ lookupEnd = "returned"
    /\ Len(attempts) = 2
    /\ attempts[1].exc = None
    /\ attempts[1].val = <<>>
    /\ ReturnedTransitions = attempts[2].val

\* C2: in one assembly run the transition fetch is called at most once per
\* workflow name, exactly once for every workflow name some emitted issue
\* type resolved to when the run completes, and every entry of a workflow
\* holds the cached list, with no request for the workflow beyond those of
\* its one fetch.
C2_FetchOncePerWorkflow ==
    ContextRun =>
        /\ \A w \in Workflows :
              /\ fetches[w] <= 1
              /\ wfRequests[w] <= fetches[w] * Len(TransitionsCandidates)
              /\ exit = "result_printed" =>
                    (fetches[w] = 1 <=>
                        \E i \in DOMAIN statuses : statuses[i].workflow_name = w)
        /\ \A i \in DOMAIN statuses :
              statuses[i].workflow_name # None =>
                  /\ statuses[i].workflow_name \in DOMAIN workflow_cache
                  /\ statuses[i].transitions = workflow_cache[statuses[i].workflow_name]

\* C2 witness: a completed run with two issue types of one workflow and one
\* fetch
C2_Witness ==
    /\ ContextRun
    /\ exit = "result_printed"
    /\ Len(statuses) = 2
    /\ statuses[1].workflow_name = "WA"
    /\ statuses[2].workflow_name = "WA"
    /\ statuses[1].issue_type # statuses[2].issue_type
    /\ fetches["WA"] = 1

\* attempt i of the scheme-ID lookup raised or yielded no scheme ID
NoSchemeId(i) == attempts[i].exc # None \/ ~Truthy(attempts[i].val)

\* the error of the last attempt that raised
LastRaised ==
    LET raisers == { i \in DOMAIN attempts : attempts[i].exc # None }
    IN  IF raisers = {} THEN NoError
        ELSE LET m == CHOOSE i \in raisers : \A j \in raisers : j <= i
             IN  Error(attempts[m].exc, m)

\* C4: in the scheme-ID lookup a candidate that fails is followed by the
\* next candidate; an error is raised only after all three candidates failed
\* or yielded no scheme ID, it is one HTTPError, and its cause is the error
\* of the last candidate that raised (no cause when none raised).
C4_SchemeIdFallback ==
    lookup = "scheme_id" =>
        LET n == Len(attempts)
        IN  /\ \A i \in 1..n : attempts[i].cand = i
            /\ \A i \in 1..(n - 1) : NoSchemeId(i)
            /\ lookupEnd = "pending" =>
                  /\ n < Len(SchemeIdCandidates)
                  /\ pc = "_fetch_workflow_scheme_id"
                  /\ exit = "running"
                  /\ raised.type = None
            /\ lookupEnd = "returned" =>
                  /\ ~NoSchemeId(n)
                  /\ scheme_id = attempts[n].val
            /\ lookupEnd = "raised" =>
                  /\ n = Len(SchemeIdCandidates)
                  /\ n = 3
                  /\ NoSchemeId(n)
                  /\ raised = [type |-> "HTTPError", cause |-> LastRaised]
                  /\ pc = "done"

\* C4 witness: the first two candidates raised, the third answered without a
\* scheme ID, and the lookup raised with the second candidate's error as cause
C4_Witness ==
    /\ lookup = "scheme_id"
    /\ lookupEnd = "raised"
    /\ attempts[1].exc = "ConnectionError"
    /\ attempts[2].exc = "JSONDecodeError"
    /\ attempts[3].exc = None
    /\ raised.cause = Error("JSONDecodeError", 2)

\* C5: the scheme-detail lookup returns the payload of the first candidate
\* that answered and from which a default workflow or a non-empty mapping was
\* extracted.
C5_DetailFirstNonEmpty ==
    (lookup = "scheme_detail" /\ lookupEnd = "returned") =>
        LET got == attempts[Len(attempts)].val
        IN  got.default # None \/ got.mapping # <<>>

\* a required setting of the function that ran is missing
Misconfigured ==
    IF ContextRun
    THEN \E n \in {"JIRA_DOMAIN", "JIRA_EMAIL", "JIRA_API_TOKEN", "JIRA_PROJECT_KEY"} :
            ~env[n]
    ELSE \E n \in {"JIRA_DOMAIN", "JIRA_EMAIL", "JIRA_API_TOKEN", "JIRA_WORKFLOW_NAME"} :
            ~env[n]

\* C6: when a required setting is missing no request is ever issued, and the
\* run ends with the configuration error.
C6_NoRequestWhenMisconfigured ==
    Misconfigured =>
        /\ netCalls = 0
        /\ pc = "done" =>
              /\ raised.type = "ValueError"
              /\ exit = "config_error_printed"

\* C6 witness: only the project key is missing and get_jira_context has ended
C6_Witness ==
    /\ ContextRun
    /\ env["JIRA_DOMAIN"] /\ env["JIRA_EMAIL"] /\ env["JIRA_API_TOKEN"]
    /\ ~env["JIRA_PROJECT_KEY"]
    /\ pc = "done"
    /\ exit = "config_error_printed"
    /\ netCalls = 0

\* C7: every error that reaches the top-level run is caught there and printed;
\* the run never ends with an uncaught exception.
C7_EveryErrorCaught ==
    (pc = "done" /\ raised.type # None) =>
        exit \in {"config_error_printed", "api_error_printed"}

FallbackLookups == {"statuses", "scheme_id", "scheme_detail", "transitions"}

\* attempt i of the running lookup failed: it raised, or it answered with
\* nothing usable (no list of issue types, no scheme ID, zero transitions)
FailedAttempt(i) ==
    \/ attempts[i].exc # None
    \/ lookup = "statuses" /\ ~attempts[i].val
    \/ lookup = "scheme_id" /\ ~Truthy(attempts[i].val)
    \/ lookup = "transitions" /\ attempts[i].val = <<>>

\* C9: every failed attempt of a fallback lookup has written its debug block
\* by the time the next candidate is requested or the failure is raised.
C9_FailedAttemptsLogged ==
    lookup \in FallbackLookups =>
        \A i \in DOMAIN attempts : FailedAttempt(i) => attempts[i].logged

\* C10: the entry appended for an issue type names the workflow the scheme
\* maps its ID to when there is such an entry, else the scheme's default
\* workflow when it has one (a non-empty name), else None; with None the
\* entry's transitions are empty and the pass made no fetch and no request.
C10_WorkflowNameResolution ==
    [][ Len(statuses') = Len(statuses) + 1 =>
            LET issue_type == statuses_payload[idx]
                entry == statuses'[Len(statuses')]
                hasEntry == /\ Has(issue_type, "id")
                            /\ issue_type.id \in DOMAIN issue_type_to_workflow
            IN  /\ entry.issue_type = issue_type.name
                /\ hasEntry => entry.workflow_name = issue_type_to_workflow[issue_type.id]
                /\ (~hasEntry /\ Truthy(default_workflow)) =>
                      entry.workflow_name = default_workflow
                /\ (~hasEntry /\ ~Truthy(default_workflow)) =>
                      /\ entry.workflow_name = None
                /\ entry.workflow_name = None =>
                      /\ entry.transitions = <<>>
                      /\ pc = "issue_type_loop"
                      /\ fetches' = fetches
                      /\ netCalls' = netCalls
      ]_vars

\* C10 witness: a completed run in which the first issue type took the
\* workflow of its own entry although the scheme has a default, and the
\* second, without an entry, took the default
C10_Witness ==
    /\ exit = "result_printed"
    /\ ContextRun
    /\ default_workflow = "WD"
    /\ Len(statuses) = 2
    /\ statuses[1].issue_type = "Bug"
    /\ statuses[1].workflow_name = "WA"
    /\ statuses[2].issue_type = "Task"
    /\ statuses[2].workflow_name = "WD"

-----------------------------------------------------------------------------
(* _build_transition_index                                                 *)

TransitionSummary(tr) ==
    [name |-> tr.name, to_status |-> tr.to_status]
        @@ (IF Truthy(Get(tr, "id")) THEN [id |-> tr.id] ELSE <<>>)

\* `from_statuses == ["*"] or "*" in from_statuses`
IsGlobal(from_statuses) ==
    from_statuses = <<"*">> \/ "*" \in Range(from_statuses)

\* by_from[from_status].append(summary) for each non-empty from_status in turn
RECURSIVE AppendUnder(_, _, _, _)
AppendUnder(index, from_statuses, j, summary) ==
    IF j > Len(from_statuses) THEN index
    ELSE LET from_status == from_statuses[j]
             next == IF from_status = "" THEN index
                     ELSE IF from_status \in DOMAIN index
                     THEN [index EXCEPT ![from_status] = Append(@, summary)]
                     ELSE (from_status :> <<summary>>) @@ index
         IN  AppendUnder(next, from_statuses, j + 1, summary)

\* the loop of _build_transition_index from transition i on
RECURSIVE IndexFrom(_, _, _, _)
IndexFrom(trs, i, index, globals) ==
    IF i > Len(trs)
    THEN [by_from |-> index, global_transitions |-> globals]
    ELSE LET tr == trs[i]
         IN  IF ~Has(tr, "name") \/ ~Has(tr, "to_status") \/ ~Has(tr, "from_statuses")
             THEN IndexFrom(trs, i + 1, index, globals)
             ELSE IF IsGlobal(tr.from_statuses)
             THEN IndexFrom(trs, i + 1, index, Append(globals, TransitionSummary(tr)))
             ELSE IndexFrom(trs, i + 1,
                            AppendUnder(index, tr.from_statuses, 1, TransitionSummary(tr)),
                            globals)

_build_transition_index(trs) == IndexFrom(trs, 1, <<>>, <<>>)

StatusNames == {"*", "To Do", "Done"}

\* the source statuses a transition may list: no status twice
FromStatuses ==
    UNION { { f \in [1..n -> StatusNames] : \A a, b \in 1..n : f[a] = f[b] => a = b }
            : n \in 0..MaxFrom }

\* the lists given to the indexer: the transition at position i has the id i
TransitionLists ==
    UNION { { [i \in 1..n |->
                 [id |-> ToString(i), name |-> "Move", to_status |-> "Done",
                  from_statuses |-> froms[i]]]
              : froms \in [1..n -> FromStatuses] }
            : n \in 0..MaxTransitions }

InitIndex ==
    /\ transitions \in TransitionLists
    /\ by_from = <<>>
    /\ global_transitions = <<>>
    /\ indexed = FALSE
    /\ IdleExport
    /\ IdlePage
    /\ IdleExtract

BuildTransitionIndex ==
    /\ ~indexed
    /\ by_from' = _build_transition_index(transitions).by_from
    /\ global_transitions' = _build_transition_index(transitions).global_transitions
    /\ indexed' = TRUE
    /\ UNCHANGED << transitions, exportVars, pageVars, extractVars >>

NextIndex == BuildTransitionIndex

SpecIndex == InitIndex /\ [][NextIndex]_vars

\* how often x occurs in the sequence s
Count(s, x) == Cardinality({ i \in DOMAIN s : s[i] = x })

CountUnder(status, x) ==
    IF status \in DOMAIN by_from THEN Count(by_from[status], x) ELSE 0

\* C3: every transition given to the indexer is in exactly one partition:
\* once in global_transitions when its sources hold the wildcard, else once
\* under each status it names in by_from and nowhere else; none is in both
\* partitions and none is dropped.
C3_EveryTransitionIndexedOnce ==
    indexed =>
        \A i \in DOMAIN transitions :
            LET tr == transitions[i]
                summary == TransitionSummary(tr)
                inGlobal == Count(global_transitions, summary)
                inByFrom == \E status \in DOMAIN by_from : CountUnder(status, summary) > 0
            IN  /\ (inGlobal > 0) # inByFrom
                /\ inGlobal > 0 =>
                      /\ inGlobal = 1
                      /\ "*" \in Range(tr.from_statuses)
                /\ inByFrom =>
                      \A status \in StatusNames :
                          CountUnder(status, summary) =
                              IF status \in Range(tr.from_statuses) THEN 1 ELSE 0

-----------------------------------------------------------------------------
(* main.py: the pagination loop                                            *)

IssueKeys == {"PRJ-1", "PRJ-2"}

PageTokens == {"tokenA", "tokenB"}

IssuePages == UNION { [1..n -> IssueKeys] : n \in 0..MaxIssues }

\* the JSON bodies of a 200 answer: an object with or without "issues" and
\* "nextPageToken", or something that is no object
SearchBodies ==
    { Dict([issues |-> p, nextPageToken |-> t]) : p \in IssuePages, t \in PageTokens \cup {""} }
        \cup { Dict([issues |-> p]) : p \in IssuePages }
        \cup { Dict([nextPageToken |-> t]) : t \in PageTokens }
        \cup { List(<<>>) }

SearchResponses ==
    { [kind |-> "raised", body |-> List(<<>>)],          \* requests.post raised
      [kind |-> "status", body |-> List(<<>>)],          \* status_code != 200
      [kind |-> "notjson", body |-> List(<<>>)] }        \* response.json() raised
        \cup { [kind |-> "ok", body |-> b] : b \in SearchBodies }

\* `data.get("issues", [])`
PageIssues(data) == IF Has(data, "issues") THEN data.issues ELSE <<>>

\* all_issues assigned the page instead of extended by it
AssignIssues(collected, issues) == issues

\* `all_issues.extend(issues)`
ExtendIssues(collected, issues) == collected \o issues

\* the body is an object with issues and a token to go on with
HasNextPage(r) ==
    /\ r.kind = "ok"
    /\ r.body.type = "dict"
    /\ PageIssues(r.body.obj) # <<>>
    /\ Truthy(Get(r.body.obj, "nextPageToken"))

\* the search endpoint serves at most MaxPages pages
ServedAt(n) ==
    IF n < MaxPages THEN SearchResponses
    ELSE { r \in SearchResponses : ~HasNextPage(r) }

InitPage ==
    /\ all_issues = <<>>
    /\ next_page_token = None
    /\ sent = <<>>
    /\ received = <<>>
    /\ looping = TRUE
    /\ IdleExport
    /\ IdleIndex
    /\ IdleExtract

\* one pass of the `while True:` loop
SearchPage ==
    /\ looping
    /\ \E r \in ServedAt(Len(sent) + 1) :
          /\ sent' = Append(sent, IF Truthy(next_page_token) THEN next_page_token ELSE None)
          /\ received' = Append(received, r)
          /\ IF r.kind # "ok" \/ r.body.type # "dict"
             THEN /\ looping' = FALSE
                  /\ UNCHANGED << all_issues, next_page_token >>
             ELSE IF PageIssues(r.body.obj) = <<>>
             THEN /\ looping' = FALSE
                  /\ UNCHANGED << all_issues, next_page_token >>
             ELSE /\ all_issues' = ExtendIssues(all_issues, PageIssues(r.body.obj))
                  /\ next_page_token' = Get(r.body.obj, "nextPageToken")
                  /\ looping' = Truthy(Get(r.body.obj, "nextPageToken"))
    /\ UNCHANGED << exportVars, indexVars, extractVars >>

NextPage == SearchPage

SpecPage == InitPage /\ [][NextPage]_vars

\* the issues of a page that was received whole: a 200 answer whose body is
\* an object
IssuesOf(r) ==
    IF r.kind = "ok" /\ r.body.type = "dict" THEN PageIssues(r.body.obj) ELSE <<>>

RECURSIVE IssuesUpTo(_)
IssuesUpTo(n) == IF n = 0 THEN <<>> ELSE IssuesUpTo(n - 1) \o IssuesOf(received[n])

\* the answer ends the listing: it raised, is no 200, is no JSON object, has
\* no issues or has no nextPageToken
LastPage(r) ==
    \/ r.kind # "ok"
    \/ r.body.type # "dict"
    \/ ~Has(r.body.obj, "issues")
    \/ r.body.obj.issues = <<>>
    \/ ~Has(r.body.obj, "nextPageToken")
    \/ r.body.obj.nextPageToken = ""

\* C8: every request is answered before the next is sent; the first carries
\* no token and each later one the nextPageToken of the answer before it; no
\* request follows an answer that ends the listing; and all_issues is the
\* concatenation, in page order, of the issues of the pages received.
C8_PaginationLoop ==
    LET n == Len(sent)
    IN  /\ Len(received) = n
        /\ n >= 1 => sent[1] = None
        /\ \A i \in 2..n :
              /\ ~LastPage(received[i - 1])
              /\ sent[i] = received[i - 1].body.obj.nextPageToken
        /\ looping => (n = 0 \/ ~LastPage(received[n]))
        /\ ~looping => (n >= 1 /\ LastPage(received[n]))
        /\ all_issues = IssuesUpTo(n)

\* C8 witness: three requests, the third answered with issues and no token,
\* after two answers with different tokens
C8_Witness ==
    /\ ~looping
    /\ Len(sent) = 3
    /\ sent[2] # sent[3]
    /\ received[3].kind = "ok"
    /\ received[3].body.type = "dict"
    /\ ~Has(received[3].body.obj, "nextPageToken")
    /\ Len(all_issues) = 3
    /\ all_issues[1] # all_issues[2]

\* the names, in listing order, of the issue types of a status listing that
\* have a non-empty string name
RECURSIVE NamedIssueTypes(_)
NamedIssueTypes(listing) ==
    IF listing = <<>> THEN <<>>
    ELSE (IF Truthy(Get(Head(listing), "name"))
          THEN << Head(listing).name >> ELSE <<>>)
             \o NamedIssueTypes(Tail(listing))

\* the issue types of the entries of a statuses list, in order
EntryIssueTypes(entries) == [i \in 1..Len(entries) |-> entries[i].issue_type]

\* every candidate of the transition lookup in progress has been tried and
\* none gave a transition
TransitionLookupExhausted ==
    /\ lookup = "transitions"
    /\ Len(attempts) = Len(TransitionsCandidates)
    /\ \A i \in 1..Len(attempts) : NoTransitions(i)

\* C12: a run of get_jira_context either prints a context whose statuses
\* hold one entry, in listing order, for every issue type of the listing with
\* a non-empty string name, or ends in an error with nothing printed; a
\* transition lookup that used up its candidates, each raising or answering
\* with zero transitions, ends the run in an error with no entry printed,
\* whatever was assembled before.
C12_AllOrNothing ==
    ContextRun =>
        /\ pc = "done" <=> exit # "running"
        /\ exit = "result_printed" =>
              /\ DOMAIN printed = {"custom_fields", "statuses"}
              /\ printed.statuses = statuses
              /\ EntryIssueTypes(printed.statuses) = NamedIssueTypes(statuses_payload)
        /\ exit # "result_printed" => printed = <<>>
        /\ TransitionLookupExhausted =>
              /\ lookupEnd = "raised"
              /\ pc = "done"
              /\ exit \notin {"running", "result_printed"}
              /\ printed = <<>>

\* C12 witness: an entry was assembled for the first issue type, then every
\* candidate of the second issue type's workflow answered with zero
\* transitions, and the run ended in an error with nothing printed
C12_Witness ==
    /\ ContextRun
    /\ TransitionLookupExhausted
    /\ \A i \in 1..Len(attempts) : attempts[i].exc = None /\ attempts[i].val = <<>>
    /\ Len(statuses) >= 1
    /\ exit = "api_error_printed"
    /\ printed = <<>>

-----------------------------------------------------------------------------
(* _extract_workflow_transitions                                           *)

RawTransitions ==
    { [id |-> "11", name |-> "Start", to |-> [name |-> "In Progress"],
       from |-> List(<< [name |-> "To Do"] >>)],
      [name |-> "Close", end |-> "Done"],
      [id |-> "21", name |-> "Reopen", to |-> [name |-> "To Do"],
       from |-> Dict([name |-> "Done"])],
      [id |-> "31", to |-> [name |-> "Done"]] }

RawLists == UNION { [1..n -> RawTransitions] : n \in 0..MaxRaw }

\* a workflow object: with a transitions array, or without one
WorkflowObjects ==
    { [transitions |-> l] : l \in RawLists } \cup { [name |-> "Workflow"] }

\* the arrays found under "values" and "workflows"
WorkflowArrays == { <<>> } \cup { <<w>> : w \in WorkflowObjects }

\* the fields a search payload may or may not have
OwnTransitions == { <<>> } \cup { [transitions |-> l] : l \in RawLists }

ValuesField == { <<>> } \cup { [values |-> a] : a \in WorkflowArrays }

WorkflowsField == { <<>> } \cup { [workflows |-> a] : a \in WorkflowArrays }

SearchPayloads ==
    { Dict(own @@ vals @@ wfs) :
        own \in OwnTransitions, vals \in ValuesField, wfs \in WorkflowsField }
        \cup { List(<<>>) }

InitExtract ==
    /\ workflow_payload \in SearchPayloads
    /\ extracted = <<>>
    /\ returned = FALSE
    /\ IdleExport
    /\ IdleIndex
    /\ IdlePage

ExtractTransitions ==
    /\ ~returned
    /\ extracted' = _extract_workflow_transitions(workflow_payload)
    /\ returned' = TRUE
    /\ UNCHANGED << workflow_payload, exportVars, indexVars, pageVars >>

NextExtract == ExtractTransitions

SpecExtract == InitExtract /\ [][NextExtract]_vars

\* the transitions read from the array under "transitions" of one object
\* (none when the object has no such array)
TransitionsOf(workflow) ==
    IF Has(workflow, "transitions")
    THEN _extract_workflow_transitions(Dict([transitions |-> workflow.transitions]))
    ELSE <<>>

HasOwnAndValues ==
    /\ workflow_payload.type = "dict"
    /\ Has(workflow_payload.obj, "transitions")
    /\ Has(workflow_payload.obj, "values")
    /\ workflow_payload.obj.values # <<>>

\* C11 as stated: the payload itself is looked at first, so a payload with a
\* transitions list of its own and a non-empty values array yields its own
\* transitions.
C11_PayloadItselfFirst ==
    (returned /\ HasOwnAndValues) => extracted = TransitionsOf(workflow_payload.obj)

\* C11 amended: the workflow object is values[0] when values is a non-empty
\* array, else workflows[0] when workflows is a non-empty array, else the
\* payload itself; a payload with a transitions list of its own and a
\* non-empty values array yields the transitions of values[0].
C11_ValuesFirst ==
    (returned /\ workflow_payload.type = "dict") =>
        LET obj == workflow_payload.obj
        IN  /\ (Has(obj, "values") /\ obj.values # <<>>) =>
                  extracted = TransitionsOf(obj.values[1])
            /\ (~(Has(obj, "values") /\ obj.values # <<>>)
                    /\ Has(obj, "workflows") /\ obj.workflows # <<>>) =>
                  extracted = TransitionsOf(obj.workflows[1])
            /\ (~(Has(obj, "values") /\ obj.values # <<>>)
                    /\ ~(Has(obj, "workflows") /\ obj.workflows # <<>>)) =>
                  extracted = TransitionsOf(obj)

\* C11 witness: a payload with transitions of its own and a non-empty values
\* array whose first object has other transitions, which are the ones returned
C11_Witness ==
    /\ returned
    /\ HasOwnAndValues
    /\ TransitionsOf(workflow_payload.obj) # <<>>
    /\ extracted # <<>>
    /\ extracted # TransitionsOf(workflow_payload.obj)
    /\ extracted = TransitionsOf(workflow_payload.obj.values[1])

=============================================================================
